---- MODULE Spec2Model ----
(***************************************************************************)
(* Model of the smart task manager (src/task_manager.py): the energy       *)
(* profile, the per-slot task score, the greedy scheduler, the             *)
(* recommendation engine's history and the task collection of              *)
(* SmartTaskManager.                                                       *)
(*                                                                         *)
(* Instants are whole minutes counted from midnight of day 0, so that      *)
(* datetime arithmetic is integer arithmetic and dt.hour is                *)
(* (t \div 60) % 24.  A Task object is a record; the field obj stands for  *)
(* the identity of the Python object (two records with equal obj are the   *)
(* same object), task_id for the string the code stores in task.task_id.   *)
(***************************************************************************)
EXTENDS Integers, Sequences, FiniteSets, TLC

VARIABLES
    tasks,          \* SmartTaskManager.tasks / the list handed to the scheduler
    task_history,   \* AIRecommendationEngine.task_history
    clock,          \* the reading datetime.now() gave at the last Task creation
    op,             \* name of the last operation that ran
    args,           \* its arguments
    ret,            \* its return value
    pre,            \* the task list (for the engine: its history) as the operation found it
    trace,          \* schedule_tasks: one record per pending task, in loop order
    calls           \* number of operations the manager has been asked for

vars == <<tasks, task_history, clock, op, args, ret, pre, trace, calls>>

-----------------------------------------------------------------------------
(* Bounds of the model *)

MaxTasks == 3       \* longest task list handed to the scheduler directly
MaxCalls == 4       \* longest sequence of manager operations

-----------------------------------------------------------------------------
(* Enumerations and sentinels *)

None == -1                  \* Python None (every instant of the model is >= 0)

LOW == 1
MEDIUM == 2
HIGH == 3
URGENT == 4

ENERGY_LOW == 1
ENERGY_MEDIUM == 2
ENERGY_HIGH == 3

DatetimeMax == 1000000      \* datetime.max: later than every instant of the model
NegInf == -1000000          \* float('-inf'): below every score

\* mutant: the scan steps by a third of an hour
SlotStep_ThirdOfHour == 60 \div 3

SlotStep == 30              \* timedelta(minutes=30)

Hour(dt) == (dt \div 60) % 24

At(h, m) == h * 60 + m      \* h:m on day 0

-----------------------------------------------------------------------------
(* EnergyProfile *)

hourly_energy ==
    [h \in 6..20 |->
        CASE h = 6  -> ENERGY_LOW
          [] h = 7  -> ENERGY_MEDIUM
          [] h = 8  -> ENERGY_HIGH
          [] h = 9  -> ENERGY_HIGH
          [] h = 10 -> ENERGY_HIGH
          [] h = 11 -> ENERGY_MEDIUM
          [] h = 12 -> ENERGY_MEDIUM
          [] h = 13 -> ENERGY_LOW
          [] h = 14 -> ENERGY_LOW
          [] h = 15 -> ENERGY_MEDIUM
          [] h = 16 -> ENERGY_HIGH
          [] h = 17 -> ENERGY_MEDIUM
          [] h = 18 -> ENERGY_MEDIUM
          [] h = 19 -> ENERGY_LOW
          [] h = 20 -> ENERGY_LOW]

\* mutant: an hour the profile does not list counts as low energy
get_energy_at_time_FallbackLow(dt) ==
    IF Hour(dt) \in DOMAIN hourly_energy
    THEN hourly_energy[Hour(dt)]
    ELSE ENERGY_LOW

get_energy_at_time(dt) ==
    IF Hour(dt) \in DOMAIN hourly_energy
    THEN hourly_energy[Hour(dt)]
    ELSE ENERGY_MEDIUM

-----------------------------------------------------------------------------
(* DynamicScheduler.calculate_task_score *)

\* mutant: the priority term counts down from URGENT instead of up from LOW
PriorityScore_Inverted(task) == (URGENT - task.priority) * 2

PriorityScore(task) == task.priority * 2

EnergyScore(task, slot_time) ==
    LET energy_at_slot == get_energy_at_time(slot_time)
    IN  IF energy_at_slot >= task.required_energy
        THEN 3
        ELSE 0 - (task.required_energy - energy_at_slot)

\* mutant: the 24h boundary is taken as "due soon"
DeadlineScore_Inclusive24(task, slot_time) ==
    IF task.deadline = None
    THEN 0
    ELSE LET minutes_until_deadline == task.deadline - slot_time
         IN  IF minutes_until_deadline < 0 THEN 0 - 100
             ELSE IF minutes_until_deadline <= 24 * 60 THEN 5
             ELSE IF minutes_until_deadline < 48 * 60 THEN 3
             ELSE 0

DeadlineScore(task, slot_time) ==
    IF task.deadline = None
    THEN 0
    ELSE LET minutes_until_deadline == task.deadline - slot_time
         IN  IF minutes_until_deadline < 0 THEN 0 - 100
             ELSE IF minutes_until_deadline < 24 * 60 THEN 5
             ELSE IF minutes_until_deadline < 48 * 60 THEN 3
             ELSE 0

calculate_task_score(task, slot_time) ==
    PriorityScore(task) + EnergyScore(task, slot_time) + DeadlineScore(task, slot_time)

-----------------------------------------------------------------------------
(* DynamicScheduler.schedule_tasks *)

\* pending_tasks = [t for t in tasks if not t.completed], as positions in ts
RECURSIVE PendingFrom(_, _)
PendingFrom(ts, i) ==
    IF i > Len(ts) THEN <<>>
    ELSE IF ts[i].completed THEN PendingFrom(ts, i + 1)
    ELSE <<i>> \o PendingFrom(ts, i + 1)

\* mutant: tasks that already have a scheduled_time are not scheduled again
RECURSIVE UnscheduledFrom(_, _)
UnscheduledFrom(ts, i) ==
    IF i > Len(ts) THEN <<>>
    ELSE IF ts[i].completed \/ ts[i].scheduled_time # None THEN UnscheduledFrom(ts, i + 1)
    ELSE <<i>> \o UnscheduledFrom(ts, i + 1)

pending_tasks_Unscheduled(ts) == UnscheduledFrom(ts, 1)

\* mutant: completed tasks are not filtered out
pending_tasks_All(ts) == [i \in 1..Len(ts) |-> i]

pending_tasks(ts) == PendingFrom(ts, 1)

\* key=lambda t: (-t.priority.value, t.deadline if t.deadline else datetime.max)
SortKey(task) ==
    <<0 - task.priority, IF task.deadline = None THEN DatetimeMax ELSE task.deadline>>

\* tuple comparison a < b
KeyLess(a, b) == a[1] < b[1] \/ (a[1] = b[1] /\ a[2] < b[2])

\* mutant: an unstable sort, an element goes before the elements of equal key
RECURSIVE InsertSorted_Unstable(_, _, _)
InsertSorted_Unstable(ts, sorted, i) ==
    IF sorted = <<>> THEN <<i>>
    ELSE IF ~KeyLess(SortKey(ts[Head(sorted)]), SortKey(ts[i]))
         THEN <<i>> \o sorted
         ELSE <<Head(sorted)>> \o InsertSorted_Unstable(ts, Tail(sorted), i)

\* list.sort is stable: an element goes behind every element whose key is
\* not greater than its own
RECURSIVE InsertSorted(_, _, _)
InsertSorted(ts, sorted, i) ==
    IF sorted = <<>> THEN <<i>>
    ELSE IF KeyLess(SortKey(ts[i]), SortKey(ts[Head(sorted)]))
         THEN <<i>> \o sorted
         ELSE <<Head(sorted)>> \o InsertSorted(ts, Tail(sorted), i)

RECURSIVE SortFrom(_, _, _)
SortFrom(ts, pending, sorted) ==
    IF pending = <<>> THEN sorted
    ELSE SortFrom(ts, Tail(pending), InsertSorted(ts, sorted, Head(pending)))

sort_pending(ts) == SortFrom(ts, pending_tasks(ts), <<>>)

\* min(end_time, task.deadline - duration if task.deadline else end_time)
Min(a, b) == IF a <= b THEN a ELSE b

\* mutant: the duration is not taken off the deadline
search_end_IgnoreDuration(task, end_time) ==
    Min(end_time, IF task.deadline = None THEN end_time ELSE task.deadline)

\* mutant: the duration is added to the deadline instead of taken off
search_end_AddDuration(task, end_time) ==
    Min(end_time,
        IF task.deadline = None THEN end_time
        ELSE task.deadline + task.duration_minutes)

search_end(task, end_time) ==
    Min(end_time,
        IF task.deadline = None THEN end_time
        ELSE task.deadline - task.duration_minutes)

\* mutant: a candidate of equal score replaces the best so far
RECURSIVE ScanSlots_LastWins(_, _, _, _)
ScanSlots_LastWins(task, test_time, s_end, best) ==
    IF test_time < s_end
    THEN LET score == calculate_task_score(task, test_time)
             nbest == IF score >= best.score
                      THEN [slot |-> test_time, score |-> score]
                      ELSE best
         IN  ScanSlots_LastWins(task, test_time + SlotStep, s_end, nbest)
    ELSE best

\* while test_time < search_end: score, keep the strictly greater, step 30
RECURSIVE ScanSlots(_, _, _, _)
ScanSlots(task, test_time, s_end, best) ==
    IF test_time < s_end
    THEN LET score == calculate_task_score(task, test_time)
             nbest == IF score > best.score
                      THEN [slot |-> test_time, score |-> score]
                      ELSE best
         IN  ScanSlots(task, test_time + SlotStep, s_end, nbest)
    ELSE best

find_best_slot(task, current_time, end_time) ==
    ScanSlots(task, current_time, search_end(task, end_time),
              [slot |-> None, score |-> NegInf])

\* mutant: the cursor moves to the committed start, not to its end
ScheduleOne_CursorAtStart(st, i, end_time) ==
    LET task == st.tasks[i]
        best == find_best_slot(task, st.current_time, end_time)
        step == [obj |-> task.obj, cursor |-> st.current_time,
                 search_end |-> search_end(task, end_time),
                 best_slot |-> best.slot, best_score |-> best.score]
    IN  IF best.slot # None
        THEN [tasks |-> [st.tasks EXCEPT ![i].scheduled_time = best.slot],
              scheduled |-> Append(st.scheduled, task.obj),
              current_time |-> IF best.slot >= st.current_time
                               THEN best.slot
                               ELSE st.current_time,
              trace |-> Append(st.trace, step)]
        ELSE [st EXCEPT !.trace = Append(st.trace, step)]

\* mutant: a task that finds no slot has its scheduled_time cleared
ScheduleOne_ClearSkipped(st, i, end_time) ==
    LET task == st.tasks[i]
        best == find_best_slot(task, st.current_time, end_time)
        step == [obj |-> task.obj, cursor |-> st.current_time,
                 search_end |-> search_end(task, end_time),
                 best_slot |-> best.slot, best_score |-> best.score]
    IN  IF best.slot # None
        THEN [tasks |-> [st.tasks EXCEPT ![i].scheduled_time = best.slot],
              scheduled |-> Append(st.scheduled, task.obj),
              current_time |-> IF best.slot >= st.current_time
                               THEN best.slot + task.duration_minutes
                               ELSE st.current_time,
              trace |-> Append(st.trace, step)]
        ELSE [tasks |-> [st.tasks EXCEPT ![i].scheduled_time = None],
              scheduled |-> st.scheduled,
              current_time |-> st.current_time,
              trace |-> Append(st.trace, step)]

\* one iteration of "for task in pending_tasks"
ScheduleOne(st, i, end_time) ==
    LET task == st.tasks[i]
        best == find_best_slot(task, st.current_time, end_time)
        step == [obj |-> task.obj, cursor |-> st.current_time,
                 search_end |-> search_end(task, end_time),
                 best_slot |-> best.slot, best_score |-> best.score]
    IN  IF best.slot # None
        THEN [tasks |-> [st.tasks EXCEPT ![i].scheduled_time = best.slot],
              scheduled |-> Append(st.scheduled, task.obj),
              current_time |-> IF best.slot >= st.current_time
                               THEN best.slot + task.duration_minutes
                               ELSE st.current_time,
              trace |-> Append(st.trace, step)]
        ELSE [st EXCEPT !.trace = Append(st.trace, step)]

\* mutant: the loop ends at the first task that finds no slot
RECURSIVE ScheduleLoop_StopAtSkip(_, _, _)
ScheduleLoop_StopAtSkip(st, order, end_time) ==
    IF order = <<>> THEN st
    ELSE LET next == ScheduleOne(st, Head(order), end_time)
         IN  IF next.scheduled = st.scheduled THEN next
             ELSE ScheduleLoop_StopAtSkip(next, Tail(order), end_time)

RECURSIVE ScheduleLoop(_, _, _)
ScheduleLoop(st, order, end_time) ==
    IF order = <<>> THEN st
    ELSE ScheduleLoop(ScheduleOne(st, Head(order), end_time), Tail(order), end_time)

schedule_tasks(ts, start_time, end_time) ==
    ScheduleLoop([tasks |-> ts, scheduled |-> <<>>,
                  current_time |-> start_time, trace |-> <<>>],
                 sort_pending(ts), end_time)

-----------------------------------------------------------------------------
(* Task.__init__ *)

NewTask(obj, inp, task_id) ==
    [obj |-> obj, task_id |-> task_id,
     priority |-> inp.priority, duration_minutes |-> inp.duration_minutes,
     deadline |-> inp.deadline, required_energy |-> inp.required_energy,
     tags |-> inp.tags, completed |-> FALSE, scheduled_time |-> None]

TaskInput(p, d, dl, e) ==
    [priority |-> p, duration_minutes |-> d, deadline |-> dl,
     required_energy |-> e, tags |-> 0]

\* the constructor arguments explored
TaskInputs ==
    { TaskInput(HIGH, 60, None, ENERGY_MEDIUM),
      TaskInput(MEDIUM, 30, None, ENERGY_MEDIUM),
      TaskInput(LOW, 45, None, ENERGY_MEDIUM),
      TaskInput(URGENT, 0 - 60, None, ENERGY_HIGH),
      TaskInput(MEDIUM, 30, At(12, 20), ENERGY_LOW) }

\* the (start_time, end_time) windows explored
WindowInputs ==
    { <<At(9, 0), At(17, 0)>>, <<At(12, 0), At(16, 0)>> }

RECURSIVE SeqsUpTo(_, _)
SeqsUpTo(S, n) ==
    IF n = 0 THEN { <<>> }
    ELSE LET shorter == SeqsUpTo(S, n - 1)
         IN  shorter \cup { Append(q, x) : q \in { r \in shorter : Len(r) = n - 1 }, x \in S }

-----------------------------------------------------------------------------------------------------------------------------------------------------
(* The scheduler driven directly, as the unit tests drive it: a list of    *)
(* tasks, some of them already completed, then any number of               *)
(* schedule_tasks calls on it.                                             *)

SchedInit ==
    /\ \E q \in SeqsUpTo(TaskInputs \X BOOLEAN, MaxTasks) :
           tasks = [i \in 1..Len(q) |->
                       [NewTask(i, q[i][1], i) EXCEPT !.completed = q[i][2]]]
    /\ task_history = <<>>
    /\ clock = 0
    /\ op = "init"
    /\ args = <<>>
    /\ ret = None
    /\ pre = <<>>
    /\ trace = <<>>
    /\ calls = 0

ScheduleTasks(start_time, end_time) ==
    LET out == schedule_tasks(tasks, start_time, end_time)
    IN  /\ tasks' = out.tasks
        /\ ret' = out.scheduled
        /\ trace' = out.trace
        /\ op' = "schedule_tasks"
        /\ args' = <<start_time, end_time>>
        /\ pre' = tasks
        /\ UNCHANGED <<task_history, clock, calls>>

SchedNext ==
    \E w \in WindowInputs : ScheduleTasks(w[1], w[2])

SchedSpec == SchedInit /\ [][SchedNext]_vars

-----------------------------------------------------------------------------
(* The scorer driven directly: one task, scored at any of the slots.       *)

ScoreTaskInputs ==
    { TaskInput(p, 30, dl, e) :
        p \in LOW..URGENT,
        dl \in {None, At(9, 20), At(37, 0), At(61, 0)},
        e \in ENERGY_LOW..ENERGY_HIGH }

ScoreSlotInputs ==
    { At(3, 0), At(9, 0), At(9, 20), At(9, 30), At(13, 0), At(13, 1) }

ScoreInit ==
    /\ \E inp \in ScoreTaskInputs : tasks = << NewTask(1, inp, 1) >>
    /\ task_history = <<>>
    /\ clock = 0
    /\ op = "init"
    /\ args = <<>>
    /\ ret = None
    /\ pre = <<>>
    /\ trace = <<>>
    /\ calls = 0

CalculateTaskScore(i, slot_time) ==
    /\ i \in DOMAIN tasks
    /\ ret' = calculate_task_score(tasks[i], slot_time)
    /\ op' = "calculate_task_score"
    /\ args' = <<i, slot_time>>
    /\ pre' = tasks
    /\ trace' = <<>>
    /\ UNCHANGED <<tasks, task_history, clock, calls>>

ScoreNext ==
    \E slot_time \in ScoreSlotInputs : CalculateTaskScore(1, slot_time)

ScoreSpec == ScoreInit /\ [][ScoreNext]_vars

-----------------------------------------------------------------------------
(* AIRecommendationEngine *)

\* completion_time_minutes or task.duration_minutes: None and 0 are falsy
learn_from_task(history, task, completion_time_minutes) ==
    IF task.completed
    THEN Append(history,
                [priority |-> task.priority,
                 duration |-> task.duration_minutes,
                 energy |-> task.required_energy,
                 tags |-> task.tags,
                 actual_duration |->
                     IF completion_time_minutes = None \/ completion_time_minutes = 0
                     THEN task.duration_minutes
                     ELSE completion_time_minutes])
    ELSE history

recommend_energy_level_AtLeast60(task) ==
    IF task.priority = URGENT THEN ENERGY_HIGH
    ELSE IF task.priority = HIGH
         THEN (IF task.duration_minutes >= 60 THEN ENERGY_HIGH ELSE ENERGY_MEDIUM)
    ELSE IF task.priority = MEDIUM THEN ENERGY_MEDIUM
    ELSE ENERGY_LOW

recommend_energy_level(task) ==
    IF task.priority = URGENT THEN ENERGY_HIGH
    ELSE IF task.priority = HIGH
         THEN (IF task.duration_minutes > 60 THEN ENERGY_HIGH ELSE ENERGY_MEDIUM)
    ELSE IF task.priority = MEDIUM THEN ENERGY_MEDIUM
    ELSE ENERGY_LOW

-----------------------------------------------------------------------------
(* SmartTaskManager.  The manager starts without a data file, so with an   *)
(* empty collection; save_tasks only writes the file and is left out.      *)

\* position of the first task with this id (0: none), as the for loops find it
RECURSIVE FirstWithId(_, _, _)
FirstWithId(ts, task_id, i) ==
    IF i > Len(ts) THEN 0
    ELSE IF ts[i].task_id = task_id THEN i
    ELSE FirstWithId(ts, task_id, i + 1)

\* self.tasks.pop(i)
Pop(ts, i) == [k \in 1..(Len(ts) - 1) |-> IF k < i THEN ts[k] ELSE ts[k + 1]]

\* the identity of a newly allocated Task object: one no task in use has
FreshObj(ts) == CHOOSE o \in 1..(Len(ts) + 1) : \A i \in DOMAIN ts : ts[i].obj # o

\* f"task_{datetime.now().timestamp()}": a function of the clock reading
generate_id(now) == now

\* caller-supplied task_id strings (disjoint from the generated ones)
ExplicitIds == { 100 }

\* an id no task was ever given
UnknownId == 200

\* the constructor arguments the manager is fed
AddInputs ==
    { TaskInput(HIGH, 60, None, ENERGY_MEDIUM),
      TaskInput(MEDIUM, 30, At(12, 20), ENERGY_LOW) }

\* actual_duration_minutes
ActualInputs == { None, 0, 45 }

\* (work_start_hour, work_end_hour)
HourInputs == { <<9, 17>>, <<12, 16>> }

Init ==
    /\ tasks = <<>>
    /\ task_history = <<>>
    /\ clock = 0
    /\ op = "init"
    /\ args = <<>>
    /\ ret = None
    /\ pre = <<>>
    /\ trace = <<>>
    /\ calls = 0

\* mutant: the recommended energy level replaces whatever was entered
AddTask_AlwaysRecommend(inp, explicit_id, elapsed) ==
    /\ calls < MaxCalls
    /\ calls' = calls + 1
    /\ clock' = clock + elapsed
    /\ LET task_id == IF explicit_id # None THEN explicit_id ELSE generate_id(clock')
           created == NewTask(FreshObj(tasks), inp, task_id)
           task == [created EXCEPT !.required_energy = recommend_energy_level(created)]
       IN  /\ tasks' = Append(tasks, task)
           /\ ret' = task.obj
           /\ args' = <<inp, explicit_id>>
    /\ op' = "add_task"
    /\ pre' = tasks
    /\ trace' = <<>>
    /\ UNCHANGED task_history

\* task = Task(..., task_id=explicit_id); manager.add_task(task).  elapsed
\* tells whether the clock reading moved on since the last creation.
AddTask(inp, explicit_id, elapsed) ==
    /\ calls < MaxCalls
    /\ calls' = calls + 1
    /\ clock' = clock + elapsed
    /\ LET task_id == IF explicit_id # None THEN explicit_id ELSE generate_id(clock')
           created == NewTask(FreshObj(tasks), inp, task_id)
           task == IF created.required_energy = ENERGY_MEDIUM
                   THEN [created EXCEPT !.required_energy = recommend_energy_level(created)]
                   ELSE created
       IN  /\ tasks' = Append(tasks, task)
           /\ ret' = task.obj
           /\ args' = <<inp, explicit_id>>
    /\ op' = "add_task"
    /\ pre' = tasks
    /\ trace' = <<>>
    /\ UNCHANGED task_history

\* mutant: the engine learns from a task only the first time it is completed
CompleteTask_LearnOnce(task_id, actual_duration_minutes) ==
    LET i == FirstWithId(tasks, task_id, 1)
    IN  /\ calls < MaxCalls
        /\ calls' = calls + 1
        /\ IF i # 0
           THEN LET done == [tasks EXCEPT ![i].completed = TRUE]
                IN  /\ tasks' = done
                    /\ task_history' =
                           IF tasks[i].completed THEN task_history
                           ELSE learn_from_task(task_history, done[i],
                                                actual_duration_minutes)
                    /\ ret' = TRUE
           ELSE /\ ret' = FALSE
                /\ UNCHANGED <<tasks, task_history>>
        /\ op' = "complete_task"
        /\ args' = <<task_id, actual_duration_minutes>>
        /\ pre' = tasks
        /\ trace' = <<>>
        /\ UNCHANGED clock

CompleteTask(task_id, actual_duration_minutes) ==
    LET i == FirstWithId(tasks, task_id, 1)
    IN  /\ calls < MaxCalls
        /\ calls' = calls + 1
        /\ IF i # 0
           THEN LET done == [tasks EXCEPT ![i].completed = TRUE]
                IN  /\ tasks' = done
                    /\ task_history' =
                           learn_from_task(task_history, done[i], actual_duration_minutes)
                    /\ ret' = TRUE
           ELSE /\ ret' = FALSE
                /\ UNCHANGED <<tasks, task_history>>
        /\ op' = "complete_task"
        /\ args' = <<task_id, actual_duration_minutes>>
        /\ pre' = tasks
        /\ trace' = <<>>
        /\ UNCHANGED clock

DeleteTask(task_id) ==
    LET i == FirstWithId(tasks, task_id, 1)
    IN  /\ calls < MaxCalls
        /\ calls' = calls + 1
        /\ IF i # 0
           THEN /\ tasks' = Pop(tasks, i)
                /\ ret' = TRUE
           ELSE /\ ret' = FALSE
                /\ UNCHANGED tasks
        /\ op' = "delete_task"
        /\ args' = <<task_id>>
        /\ pre' = tasks
        /\ trace' = <<>>
        /\ UNCHANGED <<task_history, clock>>

\* the day scheduled is day 0: start_time and end_time are whole hours of it
ScheduleDay(work_start_hour, work_end_hour) ==
    LET start_time == At(work_start_hour, 0)
        end_time == At(work_end_hour, 0)
        out == schedule_tasks(tasks, start_time, end_time)
    IN  /\ calls < MaxCalls
        /\ calls' = calls + 1
        /\ tasks' = out.tasks
        /\ ret' = out.scheduled
        /\ trace' = out.trace
        /\ op' = "schedule_day"
        /\ args' = <<start_time, end_time>>
        /\ pre' = tasks
        /\ UNCHANGED <<task_history, clock>>

\* the ids a caller can name: those in the collection and one that is not
KnownIds == { tasks[i].task_id : i \in DOMAIN tasks } \cup { UnknownId }

Next ==
    \/ \E inp \in AddInputs, explicit_id \in ExplicitIds \cup {None}, elapsed \in {0, 1} :
           AddTask(inp, explicit_id, elapsed)
    \/ \E task_id \in KnownIds, actual \in ActualInputs : CompleteTask(task_id, actual)
    \/ \E task_id \in KnownIds : DeleteTask(task_id)
    \/ \E h \in HourInputs : ScheduleDay(h[1], h[2])

Spec == Init /\ [][Next]_vars

-----------------------------------------------------------------------------
(* Vocabulary of the properties *)

Range(q) == { q[k] : k \in DOMAIN q }

\* position in the list ts of the task object o
IndexOf(ts, o) == CHOOSE i \in DOMAIN ts : ts[i].obj = o

\* the last operation was a scheduling run over the list pre with window args
Scheduled == op \in {"schedule_tasks", "schedule_day"}

windowStart == args[1]
windowEnd == args[2]

Pending(ts) == { i \in DOMAIN ts : ~ts[i].completed }

\* the steps of the last run that committed a slot, and those that skipped
Committed == { k \in DOMAIN trace : trace[k].best_slot # None }
Skipped == { k \in DOMAIN trace : trace[k].best_slot = None }

\* the candidate start times the scan of step k went through
Candidates(k) ==
    { c \in trace[k].cursor .. (trace[k].search_end - 1) :
        (c - trace[k].cursor) % SlotStep = 0 }

\* the deadline lies before windowStart + duration
DeadlineBeforeFit(t, start_time) ==
    t.deadline # None /\ t.deadline < start_time + t.duration_minutes

-----------------------------------------------------------------------------
(* C1 *)

-----------------------------------------------------------------------------
(* C2 *)

\* C2: no task is scheduled late.  For every task with a deadline and a
\* positive duration that a run commits, scheduled_time + duration is not
\* after the deadline, none of the candidates its scan went through lies
\* after the deadline, and its winning score carries no overdue penalty
\* (every score without the penalty is >= 0, every score with it is < 0).
C2_NeverScheduledLate ==
    Scheduled =>
        \A k \in Committed :
            LET t == tasks[IndexOf(tasks, trace[k].obj)]
            IN  (t.deadline # None /\ t.duration_minutes > 0) =>
                    /\ t.scheduled_time + t.duration_minutes <= t.deadline
                    /\ \A c \in Candidates(k) : c <= t.deadline
                    /\ trace[k].best_score >= 0

\* a run committed a task that has a deadline, after scanning several slots
C2_Witness ==
    /\ Scheduled
    /\ \E k \in Committed :
           LET t == tasks[IndexOf(tasks, trace[k].obj)]
           IN  /\ t.deadline # None
               /\ t.duration_minutes > 0
               /\ Cardinality(Candidates(k)) >= 2

-----------------------------------------------------------------------------
(* C3 *)

\* C3: with positive durations only, every task a run commits lies inside
\* the work window: windowStart <= scheduled_time and
\* scheduled_time + duration <= windowEnd.
C3_WithinWindow ==
    (Scheduled /\ \A j \in Pending(pre) : pre[j].duration_minutes > 0) =>
        \A o \in Range(ret) :
            LET t == tasks[IndexOf(tasks, o)]
            IN  /\ windowStart <= t.scheduled_time
                /\ t.scheduled_time + t.duration_minutes <= windowEnd

-----------------------------------------------------------------------------
(* C4 *)

-----------------------------------------------------------------------------
(* C5 *)

\* C5: a run repeated on the same list with the same window returns the
\* same result and leaves every task as the first run left it.
C5_RerunSame ==
    [][(op = "schedule_tasks" /\ op' = "schedule_tasks" /\ args' = args)
          => (ret' = ret /\ tasks' = tasks)]_vars

\* a run over a list whose tasks all carried the scheduled_time the run
\* gives them: the second of two equal runs
C5_Witness ==
    /\ Scheduled
    /\ Len(ret) >= 2
    /\ Skipped # {}
    /\ pre = tasks

-----------------------------------------------------------------------------
(* C6 *)

\* the deadline a task sorts by: tasks without a deadline come last
DeadlineRank(t) == IF t.deadline = None THEN <<1, 0>> ELSE <<0, t.deadline>>

\* task a must come before task b: higher priority, or equal priority and
\* earlier deadline (none is last), or equal both and earlier in the input
Before(ts, i, j) ==
    \/ ts[i].priority > ts[j].priority
    \/ /\ ts[i].priority = ts[j].priority
       /\ \/ DeadlineRank(ts[i])[1] < DeadlineRank(ts[j])[1]
          \/ /\ DeadlineRank(ts[i])[1] = DeadlineRank(ts[j])[1]
             /\ DeadlineRank(ts[i])[2] < DeadlineRank(ts[j])[2]
          \/ /\ DeadlineRank(ts[i]) = DeadlineRank(ts[j])
             /\ i < j

\* C6: the run goes through the pending tasks by priority descending, then
\* deadline ascending with no deadline last, equal keys in input order; the
\* result is that order with the skipped tasks removed, so priorities never
\* increase along it.
C6_ResultOrder ==
    Scheduled =>
        /\ { trace[k].obj : k \in DOMAIN trace } = { pre[i].obj : i \in Pending(pre) }
        /\ Len(trace) = Cardinality(Pending(pre))
        /\ Range(ret) = { trace[k].obj : k \in Committed }
        /\ Len(ret) = Cardinality(Committed)
        /\ \A a, b \in DOMAIN ret :
               a < b => Before(pre, IndexOf(pre, ret[a]), IndexOf(pre, ret[b]))
        /\ \A a, b \in DOMAIN ret :
               a < b => pre[IndexOf(pre, ret[a])].priority >= pre[IndexOf(pre, ret[b])].priority

\* a result where a deadline decided one pair, the input order another one
\* (the later task of the input has the same key), and a task was skipped
C6_Witness ==
    /\ Scheduled
    /\ Len(ret) >= 2
    /\ Skipped # {}
    /\ \E a, b \in DOMAIN ret :
           LET ta == pre[IndexOf(pre, ret[a])]
               tb == pre[IndexOf(pre, ret[b])]
           IN  a < b /\ SortKey(ta) = SortKey(tb)
    /\ \E i, j \in Pending(pre) :
           /\ i > j
           /\ pre[i].priority = pre[j].priority
           /\ pre[i].deadline # None
           /\ pre[j].deadline = None

-----------------------------------------------------------------------------
(* C7 *)

\* the list holds exactly the three tasks of the scenario, all pending
IsScenarioC7(ts) ==
    /\ Len(ts) = 3
    /\ \A i \in DOMAIN ts : ~ts[i].completed /\ ts[i].deadline = None
    /\ \E h, m, l \in DOMAIN ts :
           /\ ts[h].priority = HIGH /\ ts[h].duration_minutes = 60
           /\ ts[m].priority = MEDIUM /\ ts[m].duration_minutes = 30
           /\ ts[l].priority = LOW /\ ts[l].duration_minutes = 45

\* C7: High/60, Medium/30 and Low/45 without deadlines in the window
\* 09:00-17:00: all three are scheduled and the score of the High task's
\* committed slot is >= the score of every other committed slot.
C7_ThreeTasksScenario ==
    (Scheduled /\ IsScenarioC7(pre) /\ args = <<At(9, 0), At(17, 0)>>) =>
        /\ Len(ret) = 3
        /\ \A i \in DOMAIN tasks : tasks[i].scheduled_time # None
        /\ \A k, n \in DOMAIN trace :
               pre[IndexOf(pre, trace[k].obj)].priority = HIGH
                   => trace[k].best_score >= trace[n].best_score

\* the scenario was run
C7_Witness ==
    /\ Scheduled
    /\ IsScenarioC7(pre)
    /\ args = <<At(9, 0), At(17, 0)>>
    /\ \A i \in DOMAIN pre : pre[i].scheduled_time = None
    /\ Len(ret) = 3

-----------------------------------------------------------------------------
(* C8 *)

\* the deadline term as the contract words it, d being deadline - slot in
\* minutes
DeadlineTermOfContract(d) ==
    CASE d < 0 -> 0 - 100
      [] d >= 0 /\ d < 1440 -> 5
      [] d >= 1440 /\ d < 2880 -> 3
      [] d >= 2880 -> 0

-----------------------------------------------------------------------------
(* C9 *)

\* C9: completion is irreversible.  Across every manager operation a task
\* that is completed and stays in the collection stays completed; a
\* scheduling run does not return it and does not change its
\* scheduled_time.
C9_CompletionIrreversible ==
    [][\A i \in DOMAIN tasks :
          tasks[i].completed =>
              /\ \A j \in DOMAIN tasks' :
                     tasks'[j].obj = tasks[i].obj =>
                         /\ tasks'[j].completed
                         /\ op' = "schedule_day" =>
                                tasks'[j].scheduled_time = tasks[i].scheduled_time
              /\ op' = "schedule_day" => tasks[i].obj \notin Range(ret')]_vars

\* a scheduling run over a collection that holds a task completed after an
\* earlier run had scheduled it
C9_Witness ==
    /\ op = "schedule_day"
    /\ \E i \in DOMAIN pre :
           /\ pre[i].completed
           /\ pre[i].scheduled_time # None
           /\ tasks[i] = pre[i]
           /\ pre[i].obj \notin Range(ret)

-----------------------------------------------------------------------------
(* C10 *)

\* C10: no two tasks of the manager's collection have the same task_id.
C10_UniqueTaskIds ==
    \A i, j \in DOMAIN tasks : tasks[i].task_id = tasks[j].task_id => i = j

-----------------------------------------------------------------------------
(* AIRecommendationEngine called directly.  pre holds the engine's history *)
(* as the call found it, args the task handed in and, for learn_from_task, *)
(* the completion time.                                                    *)

MaxHistory == 3

\* int(x) of a quotient a/n, n > 0: the fraction is dropped, towards zero
IntOfQuotient(a, n) == IF a >= 0 THEN a \div n ELSE -((-a) \div n)

RECURSIVE SumActual(_)
SumActual(records) ==
    IF records = <<>> THEN 0
    ELSE Head(records).actual_duration + SumActual(Tail(records))

Abs(x) == IF x < 0 THEN -x ELSE x

similar_tasks_NoAbs(history, task) ==
    SelectSeq(history, LAMBDA t : t.priority - task.priority <= 1)

similar_tasks(history, task) ==
    SelectSeq(history, LAMBDA t : Abs(t.priority - task.priority) <= 1)

recommend_duration_Threshold2(history, task) ==
    IF Len(history) < 2 THEN task.duration_minutes
    ELSE LET similar == similar_tasks(history, task)
         IN  IF similar # <<>>
             THEN IntOfQuotient(SumActual(similar), Len(similar))
             ELSE task.duration_minutes

recommend_duration(history, task) ==
    IF Len(history) < 3 THEN task.duration_minutes
    ELSE LET similar == similar_tasks(history, task)
         IN  IF similar # <<>>
             THEN IntOfQuotient(SumActual(similar), Len(similar))
             ELSE task.duration_minutes

\* the tasks whose completion the engine is told about
LearnInputs ==
    { TaskInput(p, 30, None, ENERGY_MEDIUM) : p \in {LOW, HIGH} }

CompletionInputs == { None, 0, 45, 46 }

\* the tasks a recommendation is asked for
RecommendInputs ==
    { TaskInput(p, d, None, ENERGY_MEDIUM) :
        p \in {LOW, MEDIUM, HIGH, URGENT}, d \in {30, 60, 61, 90} }

EngineInit ==
    /\ tasks = <<>>
    /\ task_history = <<>>
    /\ clock = 0
    /\ op = "init"
    /\ args = <<>>
    /\ ret = None
    /\ pre = <<>>
    /\ trace = <<>>
    /\ calls = 0

LearnFromTask(inp, completed, completion_time_minutes) ==
    LET task == [NewTask(1, inp, 1) EXCEPT !.completed = completed]
    IN  /\ Len(task_history) < MaxHistory
        /\ task_history' = learn_from_task(task_history, task, completion_time_minutes)
        /\ op' = "learn_from_task"
        /\ args' = <<task, completion_time_minutes>>
        /\ ret' = None
        /\ pre' = task_history
        /\ UNCHANGED <<tasks, clock, trace, calls>>

RecommendDuration(inp) ==
    LET task == NewTask(1, inp, 1)
    IN  /\ op' = "recommend_duration"
        /\ args' = <<task>>
        /\ ret' = recommend_duration(task_history, task)
        /\ pre' = task_history
        /\ UNCHANGED <<tasks, task_history, clock, trace, calls>>

RecommendEnergyLevel(inp) ==
    LET task == NewTask(1, inp, 1)
    IN  /\ op' = "recommend_energy_level"
        /\ args' = <<task>>
        /\ ret' = recommend_energy_level(task)
        /\ pre' = task_history
        /\ UNCHANGED <<tasks, task_history, clock, trace, calls>>

EngineNext ==
    \/ \E inp \in LearnInputs, completed \in BOOLEAN, c \in CompletionInputs :
           LearnFromTask(inp, completed, c)
    \/ \E inp \in RecommendInputs : RecommendDuration(inp)
    \/ \E inp \in RecommendInputs : RecommendEnergyLevel(inp)

EngineSpec == EngineInit /\ [][EngineNext]_vars

-----------------------------------------------------------------------------
(* C11 *)

\* the record learn_from_task is said to append for a completed task
RecordOf(task, actual) ==
    [priority |-> task.priority,
     duration |-> task.duration_minutes,
     energy |-> task.required_energy,
     tags |-> task.tags,
     actual_duration |-> actual]

\* C11: learn_from_task appends exactly one record when the task is
\* completed and leaves the history alone otherwise; the record's actual
\* duration is the completion time whenever one is supplied (0 included) and
\* the planned duration only when none is supplied.
C11_RecordsSuppliedDuration ==
    op = "learn_from_task" =>
        IF args[1].completed
        THEN task_history =
                 Append(pre, RecordOf(args[1],
                                      IF args[2] = None
                                      THEN args[1].duration_minutes
                                      ELSE args[2]))
        ELSE task_history = pre

-----------------------------------------------------------------------------
(* C12 *)

\* the records of the history within priority distance 1 of the task
Within1(history, task) ==
    { k \in DOMAIN history : history[k].priority - task.priority \in -1..1 }

\* C12: recommend_duration returns the task's own planned duration whenever
\* the history has fewer than 3 records, and whenever it has 3 or more but
\* none within priority distance 1 of the task; it never changes the history.
C12_FallsBackToPlanned ==
    op = "recommend_duration" =>
        /\ task_history = pre
        /\ (Len(pre) < 3 \/ Within1(pre, args[1]) = {}) =>
               ret = args[1].duration_minutes

\* both fallbacks happen: a short history holding a similar record whose
\* actual duration differs from the plan, and a full history with none similar
C12_Witness ==
    /\ op = "recommend_duration"
    /\ ret = args[1].duration_minutes
    /\ \/ /\ Len(pre) = 2
          /\ \A k \in DOMAIN pre :
                 /\ k \in Within1(pre, args[1])
                 /\ pre[k].actual_duration # args[1].duration_minutes
       \/ /\ Len(pre) >= 3
          /\ Within1(pre, args[1]) = {}

-----------------------------------------------------------------------------
(* C13 *)

RECURSIVE SumOver(_, _)
SumOver(history, K) ==
    IF K = {} THEN 0
    ELSE LET k == CHOOSE x \in K : TRUE
         IN  history[k].actual_duration + SumOver(history, K \ {k})

MeanApplies ==
    /\ op = "recommend_duration"
    /\ Len(pre) >= 3
    /\ Within1(pre, args[1]) # {}

\* C13 as stated: with 3 or more records and at least one within priority
\* distance 1, the result is the mean of actual_duration over exactly those
\* records rounded to the nearest integer.
C13_MeanRoundedToNearest ==
    MeanApplies =>
        LET K == Within1(pre, args[1])
        IN  2 * Abs(Cardinality(K) * ret - SumOver(pre, K)) <= Cardinality(K)

\* C13: with 3 or more records and at least one within priority distance 1,
\* the result is the mean of actual_duration over exactly those records with
\* its fraction dropped.
C13_MeanTruncated ==
    MeanApplies =>
        LET K == Within1(pre, args[1])
            n == Cardinality(K)
            sum == SumOver(pre, K)
        IN  /\ n * Abs(ret) <= Abs(sum)
            /\ Abs(sum) < n * (Abs(ret) + 1)
            /\ (sum >= 0) = (ret >= 0) \/ ret = 0

\* a mean that is not whole, taken over some but not all of the records
C13_Witness ==
    /\ MeanApplies
    /\ LET K == Within1(pre, args[1])
       IN  /\ K # DOMAIN pre
           /\ SumOver(pre, K) % Cardinality(K) # 0

-----------------------------------------------------------------------------
(* C14 *)

\* C14: recommend_energy_level follows a fixed table whatever the history
\* holds: URGENT gives HIGH, HIGH gives HIGH when the duration exceeds 60
\* minutes and MEDIUM otherwise, MEDIUM gives MEDIUM, LOW gives LOW.
C14_EnergyRuleTable ==
    op = "recommend_energy_level" =>
        LET p == args[1].priority
            d == args[1].duration_minutes
        IN  /\ p = URGENT => ret = ENERGY_HIGH
            /\ p = HIGH /\ d > 60 => ret = ENERGY_HIGH
            /\ p = HIGH /\ d <= 60 => ret = ENERGY_MEDIUM
            /\ p = MEDIUM => ret = ENERGY_MEDIUM
            /\ p = LOW => ret = ENERGY_LOW
            /\ task_history = pre

\* a HIGH task of exactly 60 minutes asked about over a non-empty history
C14_Witness ==
    /\ op = "recommend_energy_level"
    /\ args[1].priority = HIGH
    /\ args[1].duration_minutes = 60
    /\ ret = ENERGY_MEDIUM
    /\ task_history # <<>>

-----------------------------------------------------------------------------
(* AIRecommendationEngine.get_productivity_insights over a task list.  A   *)
(* quotient the code leaves as a float is kept as the pair num/den.        *)

MaxInsightTasks == 6

Ratio(n, d) == [num |-> n, den |-> d]

\* a < b for ratios with positive denominators
RatioLess(a, b) == a.num * b.den < b.num * a.den

RECURSIVE SumDuration(_)
SumDuration(ts) ==
    IF ts = <<>> THEN 0
    ELSE Head(ts).duration_minutes + SumDuration(Tail(ts))

HighPriorityMessage == "You have multiple high-priority tasks pending."
CompletionRateMessage == "Your completion rate is below 50%."

recommendations_AtLeast3(insights) ==
    (IF insights.high_priority_pending >= 3
     THEN <<HighPriorityMessage>> ELSE <<>>)
    \o (IF RatioLess(insights.completion_rate, Ratio(1, 2))
           /\ insights.total_tasks > 5
        THEN <<CompletionRateMessage>> ELSE <<>>)

recommendations(insights) ==
    (IF insights.high_priority_pending > 3
     THEN <<HighPriorityMessage>> ELSE <<>>)
    \o (IF RatioLess(insights.completion_rate, Ratio(1, 2))
           /\ insights.total_tasks > 5
        THEN <<CompletionRateMessage>> ELSE <<>>)

get_productivity_insights(ts) ==
    LET completed == SelectSeq(ts, LAMBDA t : t.completed)
        pending == SelectSeq(ts, LAMBDA t : ~t.completed)
        insights ==
            [total_tasks |-> Len(ts),
             completed_tasks |-> Len(completed),
             pending_tasks |-> Len(pending),
             completion_rate |->
                 IF ts # <<>> THEN Ratio(Len(completed), Len(ts)) ELSE Ratio(0, 1),
             avg_task_duration |->
                 IF ts # <<>> THEN Ratio(SumDuration(ts), Len(ts)) ELSE Ratio(0, 1),
             high_priority_pending |->
                 Len(SelectSeq(pending, LAMBDA t : t.priority >= HIGH))]
    IN  insights @@ [recommendations |-> recommendations(insights)]

\* priority, duration and completed flag of the tasks a list is drawn from
InsightTaskInputs ==
    { <<TaskInput(MEDIUM, 30, None, ENERGY_MEDIUM), FALSE>>,
      <<TaskInput(HIGH, 60, None, ENERGY_MEDIUM), FALSE>>,
      <<TaskInput(URGENT, 30, None, ENERGY_HIGH), FALSE>>,
      <<TaskInput(HIGH, 60, None, ENERGY_MEDIUM), TRUE>> }

InsightsInit ==
    /\ \E q \in SeqsUpTo(InsightTaskInputs, MaxInsightTasks) :
           tasks = [i \in DOMAIN q |->
                       [NewTask(i, q[i][1], i) EXCEPT !.completed = q[i][2]]]
    /\ task_history = <<>>
    /\ clock = 0
    /\ op = "init"
    /\ args = <<>>
    /\ ret = None
    /\ pre = <<>>
    /\ trace = <<>>
    /\ calls = 0

GetProductivityInsights ==
    /\ op' = "get_productivity_insights"
    /\ args' = <<tasks>>
    /\ ret' = get_productivity_insights(tasks)
    /\ pre' = tasks
    /\ UNCHANGED <<tasks, task_history, clock, trace, calls>>

InsightsNext == GetProductivityInsights

InsightsSpec == InsightsInit /\ [][InsightsNext]_vars

-----------------------------------------------------------------------------
(* C15 *)

CompletedOf(ts) == { i \in DOMAIN ts : ts[i].completed }

HighOrUrgentPending(ts) ==
    { i \in DOMAIN ts : ~ts[i].completed /\ ts[i].priority \in {HIGH, URGENT} }

\* C15: the insights report total = completed + pending, the completion rate
\* completed/total (0 for the empty list) and the number of pending HIGH or
\* URGENT tasks; the recommendations hold the high-priority message exactly
\* when that number exceeds 3 and the completion-rate message exactly when
\* the rate is below 0.5 and the total exceeds 5.
C15_InsightsCounts ==
    op = "get_productivity_insights" =>
        LET total == Len(tasks)
            completed == Cardinality(CompletedOf(tasks))
            high == Cardinality(HighOrUrgentPending(tasks))
        IN  /\ ret.total_tasks = total
            /\ ret.completed_tasks = completed
            /\ ret.total_tasks = ret.completed_tasks + ret.pending_tasks
            /\ IF total = 0
               THEN ret.completion_rate.num = 0
               ELSE ret.completion_rate.num * total = completed * ret.completion_rate.den
            /\ ret.completion_rate.den > 0
            /\ ret.high_priority_pending = high
            /\ (HighPriorityMessage \in Range(ret.recommendations)) <=> (high > 3)
            /\ (CompletionRateMessage \in Range(ret.recommendations))
                   <=> (2 * completed < total /\ total > 5)

\* exactly 3 pending HIGH or URGENT tasks beside a completed HIGH one, in a
\* list of more than 5 tasks whose completion rate is below one half
C15_Witness ==
    /\ op = "get_productivity_insights"
    /\ Cardinality(HighOrUrgentPending(tasks)) = 3
    /\ CompletedOf(tasks) # {}
    /\ Len(tasks) > 5
    /\ ret.recommendations = <<CompletionRateMessage>>

-----------------------------------------------------------------------------
(* src/algorithms.py: the energy pattern and the metrics computed from it. *)
(* The functions are pure; an action applies one of them to inputs of its  *)
(* choice and leaves the call in op, args and ret.  A result between 0 and *)
(* 1 is kept in hundredths, a score with one decimal in tenths.            *)

MaxCurve == 3
MaxTotalTasks == 6

EnergyPattern(hour, energy) == [hour |-> hour, energy |-> energy]

DEFAULT_ENERGY_PATTERN ==
    <<EnergyPattern(6, 30),
      EnergyPattern(7, 50),
      EnergyPattern(8, 70),
      EnergyPattern(9, 85),
      EnergyPattern(10, 90),
      EnergyPattern(11, 85),
      EnergyPattern(12, 75),
      EnergyPattern(13, 60),
      EnergyPattern(14, 50),
      EnergyPattern(15, 55),
      EnergyPattern(16, 70),
      EnergyPattern(17, 75),
      EnergyPattern(18, 70),
      EnergyPattern(19, 60),
      EnergyPattern(20, 50),
      EnergyPattern(21, 40),
      EnergyPattern(22, 30),
      EnergyPattern(23, 20)>>

Max(a, b) == IF a > b THEN a ELSE b

RECURSIVE MaxFrom_LastWins(_, _)
RECURSIVE MaxFrom(_, _)

\* max(energy_pattern, key=lambda x: x.energy), read as the last of the
\* points of greatest energy
MaxFrom_LastWins(rest, best) ==
    IF rest = <<>> THEN best
    ELSE MaxFrom_LastWins(Tail(rest),
                          IF Head(rest).energy >= best.energy THEN Head(rest) ELSE best)

\* max(energy_pattern, key=lambda x: x.energy): a later point replaces the
\* best so far only when its energy is strictly greater
MaxFrom(rest, best) ==
    IF rest = <<>> THEN best
    ELSE MaxFrom(Tail(rest),
                 IF Head(rest).energy > best.energy THEN Head(rest) ELSE best)

calculate_peak_energy(energy_pattern) ==
    LET peak == MaxFrom(Tail(energy_pattern), Head(energy_pattern))
    IN  [hour |-> peak.hour, energy |-> peak.energy]

HoursOf(points) == [k \in DOMAIN points |-> points[k].hour]

find_optimal_time_windows(energy_required, energy_pattern) ==
    HoursOf(SelectSeq(energy_pattern, LAMBDA pattern : pattern.energy >= energy_required))

find_deep_work_windows_Above70(energy_pattern) ==
    HoursOf(SelectSeq(energy_pattern, LAMBDA pattern : pattern.energy > 70))

find_deep_work_windows(energy_pattern) ==
    HoursOf(SelectSeq(energy_pattern, LAMBDA pattern : pattern.energy >= 70))

\* the points (p for p in energy_pattern if p.hour == scheduled_hour);
\* next(..., None) is the first of them, and None when there is none
hour_data(scheduled_hour, energy_pattern) ==
    SelectSeq(energy_pattern, LAMBDA p : p.hour = scheduled_hour)

calculate_energy_alignment_Deficit100(scheduled_hour, task_energy_required, energy_pattern) ==
    LET found == hour_data(scheduled_hour, energy_pattern)
    IN  IF found = <<>> THEN 0
        ELSE LET available_energy == Head(found).energy
             IN  IF available_energy >= task_energy_required
                 THEN Min(100, 100 - (available_energy - task_energy_required))
                 ELSE Max(0, 100 - (task_energy_required - available_energy))

\* in hundredths: 1 - excess/100 is 100 - excess, 1 - deficit/50 is 100 - 2*deficit
calculate_energy_alignment(scheduled_hour, task_energy_required, energy_pattern) ==
    LET found == hour_data(scheduled_hour, energy_pattern)
    IN  IF found = <<>> THEN 0
        ELSE LET available_energy == Head(found).energy
             IN  IF available_energy >= task_energy_required
                 THEN Min(100, 100 - (available_energy - task_energy_required))
                 ELSE Max(0, 100 - 2 * (task_energy_required - available_energy))

\* round() of the quotient n/d, n >= 0 and d > 0, to a whole number: to the
\* nearest, and to the even one of two equally near
RoundHalfEven(n, d) ==
    LET q == n \div d
        r == n % d
    IN  IF 2 * r < d THEN q
        ELSE IF 2 * r > d THEN q + 1
        ELSE IF q % 2 = 0 THEN q ELSE q + 1

calculate_productivity_score_NoCap(completed_tasks, total_tasks, energy_alignment) ==
    IF total_tasks = 0 THEN 0
    ELSE RoundHalfEven(1000 * completed_tasks + 2 * energy_alignment * total_tasks,
                       total_tasks)

\* in tenths, energy_alignment in hundredths: completion_rate * 100 is
\* 1000 * completed / total tenths and energy_alignment * 20 is
\* 2 * energy_alignment tenths
calculate_productivity_score(completed_tasks, total_tasks, energy_alignment) ==
    IF total_tasks = 0 THEN 0
    ELSE Min(1000,
             RoundHalfEven(1000 * completed_tasks + 2 * energy_alignment * total_tasks,
                           total_tasks))

\* the patterns handed in: the default one and every short list of points,
\* in any order of hours and with equal energies
PointInputs == { EnergyPattern(h, e) : h \in {9, 10, 11}, e \in {70, 90} }

PatternInputs ==
    {DEFAULT_ENERGY_PATTERN} \cup (SeqsUpTo(PointInputs, MaxCurve) \ {<<>>})

AlignmentPatternInputs ==
    { DEFAULT_ENERGY_PATTERN, <<EnergyPattern(9, 0)>>, <<EnergyPattern(9, 100)>> }

EnergyInputs == 0..100

AlignmentInputs == { 0, 25, 50, 100 }

InstantInputs == { At(h, m) : h \in 0..47, m \in {0, 59} }

AlgoInit ==
    /\ tasks = <<>>
    /\ task_history = <<>>
    /\ clock = 0
    /\ op = "init"
    /\ args = <<>>
    /\ ret = None
    /\ pre = <<>>
    /\ trace = <<>>
    /\ calls = 0

\* the functions keep no state: a behaviour is one call
Called(name, arguments, result) ==
    /\ op = "init"
    /\ op' = name
    /\ args' = arguments
    /\ ret' = result
    /\ UNCHANGED <<tasks, task_history, clock, pre, trace, calls>>

CalculatePeakEnergy(energy_pattern) ==
    Called("calculate_peak_energy", <<energy_pattern>>,
           calculate_peak_energy(energy_pattern))

FindOptimalTimeWindows(energy_required, energy_pattern) ==
    Called("find_optimal_time_windows", <<energy_required, energy_pattern>>,
           find_optimal_time_windows(energy_required, energy_pattern))

FindDeepWorkWindows(energy_pattern) ==
    Called("find_deep_work_windows", <<energy_pattern>>,
           find_deep_work_windows(energy_pattern))

CalculateEnergyAlignment(scheduled_hour, task_energy_required, energy_pattern) ==
    Called("calculate_energy_alignment",
           <<scheduled_hour, task_energy_required, energy_pattern>>,
           calculate_energy_alignment(scheduled_hour, task_energy_required,
                                      energy_pattern))

CalculateProductivityScore(completed_tasks, total_tasks, energy_alignment) ==
    Called("calculate_productivity_score",
           <<completed_tasks, total_tasks, energy_alignment>>,
           calculate_productivity_score(completed_tasks, total_tasks,
                                        energy_alignment))

GetEnergyAtTime(dt) ==
    Called("get_energy_at_time", <<dt>>, get_energy_at_time(dt))

\* a time string "HH:MM" as its four digits
TimeString(hour, minute) ==
    <<hour \div 10, hour % 10, minute \div 10, minute % 10>>

\* datetime.strptime(text, "%H:%M"): the minutes since midnight of 1900-01-01
strptime(text) == (10 * text[1] + text[2]) * 60 + (10 * text[3] + text[4])

MinutesPerDay == 24 * 60

calculate_duration_MidnightAtEqual(start_time, end_time) ==
    LET start == strptime(start_time)
        end == strptime(end_time)
        moved == IF end <= start THEN end + MinutesPerDay ELSE end
    IN  IntOfQuotient((moved - start) * 60, 60)

\* delta.total_seconds() / 60, with int() dropping the fraction
calculate_duration(start_time, end_time) ==
    LET start == strptime(start_time)
        end == strptime(end_time)
        moved == IF end < start THEN end + MinutesPerDay ELSE end
    IN  IntOfQuotient((moved - start) * 60, 60)

TimeInputs == { TimeString(h, m) : h \in 0..23, m \in {0, 30, 59} }

CalculateDuration(start_time, end_time) ==
    Called("calculate_duration", <<start_time, end_time>>,
           calculate_duration(start_time, end_time))

AlgoNext ==
    \/ \E energy_pattern \in PatternInputs : CalculatePeakEnergy(energy_pattern)
    \/ \E energy_required \in {70, 85}, energy_pattern \in PatternInputs :
           FindOptimalTimeWindows(energy_required, energy_pattern)
    \/ \E energy_pattern \in PatternInputs : FindDeepWorkWindows(energy_pattern)
    \/ \E scheduled_hour \in 0..23, task_energy_required \in EnergyInputs,
          energy_pattern \in AlignmentPatternInputs :
           CalculateEnergyAlignment(scheduled_hour, task_energy_required,
                                    energy_pattern)
    \/ \E total_tasks \in 0..MaxTotalTasks :
           \E completed_tasks \in 0..total_tasks, energy_alignment \in AlignmentInputs :
               CalculateProductivityScore(completed_tasks, total_tasks,
                                          energy_alignment)
    \/ \E dt \in InstantInputs : GetEnergyAtTime(dt)
    \/ \E start_time \in TimeInputs, end_time \in TimeInputs :
           CalculateDuration(start_time, end_time)

AlgoSpec == AlgoInit /\ [][AlgoNext]_vars

-----------------------------------------------------------------------------
(* C16 *)

PeakCalled == op = "calculate_peak_energy"

\* the greatest energy of a pattern and the points that have it
MaxEnergy(points) ==
    CHOOSE e \in { points[k].energy : k \in DOMAIN points } :
        \A k \in DOMAIN points : points[k].energy <= e

Peaks(points) == { k \in DOMAIN points : points[k].energy = MaxEnergy(points) }

\* C16 as stated: for every non-empty pattern, in whatever order its points
\* are listed, the peak is a point of greatest energy and has the earliest
\* hour among those; on the default pattern it is hour 10, energy 90.
C16_PeakEarliestHour ==
    PeakCalled =>
        LET points == args[1]
        IN  /\ ret.energy = MaxEnergy(points)
            /\ \E k \in Peaks(points) : points[k].hour = ret.hour
            /\ \A k \in Peaks(points) : ret.hour <= points[k].hour
            /\ points = DEFAULT_ENERGY_PATTERN => ret = [hour |-> 10, energy |-> 90]

\* the hours of the pattern are listed in ascending order
HourAscending(points) ==
    \A j, k \in DOMAIN points : j < k => points[j].hour < points[k].hour

\* C16: for every non-empty pattern the peak is a point of greatest energy,
\* the first listed of those; it is the one with the earliest hour when the
\* pattern is listed in ascending order of hours; on the default pattern it
\* is hour 10, energy 90.
C16_PeakFirstListed ==
    PeakCalled =>
        LET points == args[1]
            first == CHOOSE k \in Peaks(points) : \A j \in Peaks(points) : k <= j
        IN  /\ ret.energy = MaxEnergy(points)
            /\ ret.hour = points[first].hour
            /\ HourAscending(points) =>
                   \A k \in Peaks(points) : ret.hour <= points[k].hour
            /\ points = DEFAULT_ENERGY_PATTERN => ret = [hour |-> 10, energy |-> 90]

\* two points of greatest energy in ascending order of hours, after a lower one
C16_Witness ==
    /\ PeakCalled
    /\ HourAscending(args[1])
    /\ Cardinality(Peaks(args[1])) = 2
    /\ 1 \notin Peaks(args[1])

-----------------------------------------------------------------------------
(* C17 *)

\* the hours at or above 70 were asked for on the default pattern
DeepWorkOnDefault ==
    \/ /\ op = "find_deep_work_windows"
       /\ args[1] = DEFAULT_ENERGY_PATTERN
    \/ /\ op = "find_optimal_time_windows"
       /\ args[1] = 70
       /\ args[2] = DEFAULT_ENERGY_PATTERN

\* C17 as stated: the hours of the default pattern at or above 70 are
\* exactly 8, 9, 10, 11, 16, 17, 18, in ascending order.
C17_DeepWorkWithoutNoon ==
    DeepWorkOnDefault => ret = <<8, 9, 10, 11, 16, 17, 18>>

\* C17: the hours of the default pattern at or above 70 are exactly
\* 8, 9, 10, 11, 12, 16, 17, 18, in ascending order.
C17_DeepWorkWithNoon ==
    DeepWorkOnDefault => ret = <<8, 9, 10, 11, 12, 16, 17, 18>>

C17_Witness ==
    /\ op = "find_deep_work_windows"
    /\ args[1] = DEFAULT_ENERGY_PATTERN
    /\ Len(ret) = 8

-----------------------------------------------------------------------------
(* C18 *)

\* the capacity the default pattern gives an hour, 50 for an hour it lacks
CapacityAt(hour) ==
    LET found == hour_data(hour, DEFAULT_ENERGY_PATTERN)
    IN  IF found = <<>> THEN 50 ELSE Head(found).energy

LookupCalled == op = "get_energy_at_time"

\* C18 as stated: the lookup the scorer uses agrees with the capacity of the
\* default pattern for every hour 0-23: it gives the medium fallback outside
\* the hours 6-23, and hours of equal capacity get an equal answer.
C18_LookupFollowsCurve ==
    LookupCalled =>
        LET hour == Hour(args[1])
        IN  /\ hour \notin 6..23 => ret = ENERGY_MEDIUM
            /\ \A other \in 0..23 :
                   CapacityAt(other) = CapacityAt(hour) =>
                       get_energy_at_time(At(other, 0)) = ret

\* C18: the lookup the scorer uses returns the level of the profile's own
\* table for every hour 6-20 (HIGH for 8, 9, 10, 16, MEDIUM for 7, 11, 12,
\* 15, 17, 18, LOW for 6, 13, 14, 19, 20) and the MEDIUM fallback for every
\* other hour, 21-23 included; the scorer's energy term is computed from it.
C18_LookupFollowsProfile ==
    LookupCalled =>
        LET hour == Hour(args[1])
            demanding == [required_energy |-> ENERGY_HIGH]
        IN  /\ hour \in {8, 9, 10, 16} => ret = ENERGY_HIGH
            /\ hour \in {7, 11, 12, 15, 17, 18} => ret = ENERGY_MEDIUM
            /\ hour \in {6, 13, 14, 19, 20} => ret = ENERGY_LOW
            /\ hour \notin 6..20 => ret = ENERGY_MEDIUM
            /\ EnergyScore(demanding, args[1]) =
                   IF ret = ENERGY_HIGH THEN 3 ELSE ret - ENERGY_HIGH

\* an hour of the default pattern that the profile does not list, and hour 3
C18_Witness ==
    /\ LookupCalled
    /\ Hour(args[1]) \in {3, 22}
    /\ ret = ENERGY_MEDIUM
    /\ CapacityAt(22) = 30

-----------------------------------------------------------------------------
(* C19 *)

AlignmentCalled == op = "calculate_energy_alignment"

\* C19: the alignment lies in [0, 1] for capacities and requirements in
\* 0..100; at an hour of the pattern it is 1 when the requirement equals the
\* capacity, falls strictly with every further unit required while the
\* deficit is below 50, and is 0 once the deficit is 50 or more; at an hour
\* the pattern lacks it is 0.
C19_AlignmentShape ==
    AlignmentCalled =>
        LET hour == args[1]
            required == args[2]
            points == args[3]
            at == { k \in DOMAIN points : points[k].hour = hour }
        IN  /\ ret \in 0..100
            /\ at = {} => ret = 0
            /\ \A k \in at :
                   LET capacity == points[k].energy
                   IN  /\ required = capacity => ret = 100
                       /\ (required >= capacity /\ required - capacity < 50) =>
                              calculate_energy_alignment(hour, required + 1, points) < ret
                       /\ required - capacity >= 50 => ret = 0

\* a deficit of exactly 50 at an hour of the default pattern
C19_Witness ==
    /\ AlignmentCalled
    /\ args[3] = DEFAULT_ENERGY_PATTERN
    /\ args[2] - CapacityAt(args[1]) = 50
    /\ hour_data(args[1], args[3]) # <<>>
    /\ ret = 0

-----------------------------------------------------------------------------
(* C20 *)

ProductivityCalled == op = "calculate_productivity_score"

\* C20: the productivity score is 0 when total is 0 and otherwise
\* min(100, completed/total*100 + alignment*20) to one decimal; it lies in
\* [0, 100] for 0 <= completed <= total and alignment in [0, 1]; it is 0 for
\* (0, 0) and 100 for (5, 5, 1.0).
C20_ProductivityScore ==
    (/\ ProductivityCalled
     /\ 0 <= args[1]
     /\ args[1] <= args[2]
     /\ args[3] \in 0..100) =>
        LET completed == args[1]
            total == args[2]
            alignment == args[3]
            \* total * min(100, completed/total*100 + alignment*20), in tenths
            exact == Min(1000 * total, 1000 * completed + 2 * alignment * total)
        IN  /\ ret \in 0..1000
            /\ total = 0 => ret = 0
            /\ total > 0 => 2 * Abs(ret * total - exact) <= total
            /\ (completed = 5 /\ total = 5 /\ alignment = 100) => ret = 1000

\* the cap at work on (5, 5, 1.0), where the sum is 120
C20_Witness ==
    /\ ProductivityCalled
    /\ args = <<5, 5, 100>>
    /\ ret = 1000

-----------------------------------------------------------------------------
(* C21 *)

DurationCalled == op = "calculate_duration"

\* hour and minute a time string names
HourOfText(text) == 10 * text[1] + text[2]
MinuteOfText(text) == 10 * text[3] + text[4]

\* C21: for valid HH:MM strings the duration is end - start in minutes when
\* end >= start and end + 24h - start when end < start, so it lies in
\* 0..1439 and equal times give 0; from 23:30 to 00:30 it is 60.
C21_DurationAcrossMidnight ==
    DurationCalled =>
        LET s == HourOfText(args[1]) * 60 + MinuteOfText(args[1])
            e == HourOfText(args[2]) * 60 + MinuteOfText(args[2])
        IN  /\ e >= s => ret = e - s
            /\ e < s => ret = e + 1440 - s
            /\ ret \in 0..1439
            /\ args[1] = args[2] => ret = 0
            /\ args = <<TimeString(23, 30), TimeString(0, 30)>> => ret = 60

\* 23:30 to 00:30, across midnight
C21_Witness ==
    /\ DurationCalled
    /\ args = <<TimeString(23, 30), TimeString(0, 30)>>
    /\ ret = 60

-----------------------------------------------------------------------------
(* C22 *)

\* the task of step k as the run found it
TaskOfStep(k) == pre[IndexOf(pre, trace[k].obj)]

\* cursor + k*30min below the bound, k >= 0
EveryHalfHour(cursor, bound) ==
    { c \in cursor .. (bound - 1) : (c - cursor) % 30 = 0 }

\* C22: for each task a run commits, the committed start is the earliest of
\* the candidates cursor + k*30min < searchEnd that attains the greatest
\* score over these candidates, where searchEnd is min(windowEnd, deadline -
\* duration), or windowEnd without a deadline: no candidate scores higher
\* and every earlier one scores strictly lower.
C22_EarliestBestCandidate ==
    Scheduled =>
        \A k \in DOMAIN trace :
            LET t == TaskOfStep(k)
                searchEnd == IF t.deadline = None THEN windowEnd
                             ELSE Min(windowEnd, t.deadline - t.duration_minutes)
                candidates == EveryHalfHour(trace[k].cursor, searchEnd)
                best == trace[k].best_slot
            IN  /\ trace[k].search_end = searchEnd
                /\ k \in Committed =>
                       /\ best \in candidates
                       /\ tasks[IndexOf(tasks, t.obj)].scheduled_time = best
                       /\ \A c \in candidates :
                              /\ calculate_task_score(t, c) <= calculate_task_score(t, best)
                              /\ c < best =>
                                     calculate_task_score(t, c) < calculate_task_score(t, best)

\* a run committed a later candidate that beat the first one, and left later
\* candidates of the same score behind it
C22_Witness ==
    /\ Scheduled
    /\ \E k \in Committed :
           LET t == TaskOfStep(k)
               best == trace[k].best_slot
           IN  /\ best > trace[k].cursor
               /\ \E c \in Candidates(k) :
                      /\ c > best
                      /\ calculate_task_score(t, c) = calculate_task_score(t, best)

-----------------------------------------------------------------------------
(* C23 *)

\* the tasks the last run skipped
SkippedObjs == { trace[k].obj : k \in Skipped }

\* the list the run was given, without the tasks it skipped
WithoutSkipped == SelectSeq(pre, LAMBDA t : t.obj \notin SkippedObjs)

\* C23: a task that cannot be placed never blocks the rest.  The step of a
\* skipped task leaves the cursor where it was, and the run over the same
\* list without the skipped tasks gives the same result list and the same
\* scheduled_time for every other task.
C23_SkippedNeverBlocks ==
    Scheduled =>
        LET again == schedule_tasks(WithoutSkipped, windowStart, windowEnd)
        IN  /\ \A k \in Skipped :
                   k + 1 \in DOMAIN trace => trace[k + 1].cursor = trace[k].cursor
            /\ again.scheduled = ret
            /\ \A i \in DOMAIN again.tasks :
                   again.tasks[i].scheduled_time =
                       tasks[IndexOf(tasks, again.tasks[i].obj)].scheduled_time

\* a run skipped a task and committed one that came after it
C23_Witness ==
    /\ Scheduled
    /\ \E k \in Skipped : \E j \in Committed : k < j

-----------------------------------------------------------------------------
(* C24 *)

OnHalfHour(dt) == dt % 30 = 0

\* every candidate the run scanned and every start it committed is on a
\* 30-minute boundary
AllSlotsAligned ==
    \A k \in DOMAIN trace :
        /\ \A c \in Candidates(k) : OnHalfHour(c)
        /\ k \in Committed => OnHalfHour(trace[k].best_slot)

\* C24 as stated: when windowStart is on a 30-minute boundary and every
\* pending task has a positive duration, every candidate scanned and every
\* committed scheduled_time is on a 30-minute boundary.
C24_SlotsAligned ==
    (/\ Scheduled
     /\ OnHalfHour(windowStart)
     /\ \A i \in Pending(pre) : pre[i].duration_minutes > 0) =>
        AllSlotsAligned

\* C24: when windowStart is on a 30-minute boundary and every pending task
\* has a duration that is a positive multiple of 30 minutes, every candidate
\* scanned and every committed scheduled_time is on a 30-minute boundary.
C24_SlotsAlignedHalfHourDurations ==
    (/\ Scheduled
     /\ OnHalfHour(windowStart)
     /\ \A i \in Pending(pre) :
            /\ pre[i].duration_minutes > 0
            /\ pre[i].duration_minutes % 30 = 0) =>
        AllSlotsAligned

\* two tasks of 60 and 30 minutes committed one after the other
C24_Witness ==
    /\ Scheduled
    /\ OnHalfHour(windowStart)
    /\ \A i \in Pending(pre) :
           /\ pre[i].duration_minutes > 0
           /\ pre[i].duration_minutes % 30 = 0
    /\ \E j, k \in Committed :
           /\ j < k
           /\ trace[k].cursor > windowStart
           /\ TaskOfStep(j).duration_minutes # TaskOfStep(k).duration_minutes

-----------------------------------------------------------------------------
(* C25 *)

\* the task of the result list at position i, as the run left it
ResultTask(i) == tasks[IndexOf(tasks, ret[i])]

\* C25: within one run over tasks of positive duration the winning candidate
\* is never before the cursor, the cursor never moves backwards, and each
\* task of the result starts no earlier than the end of the task before it
\* in the result, so the committed slots follow the result order and do not
\* overlap.
C25_SlotsInOrderNoOverlap ==
    (/\ Scheduled
     /\ \A i \in Pending(pre) : pre[i].duration_minutes > 0) =>
        /\ \A k \in Committed : trace[k].best_slot >= trace[k].cursor
        /\ \A k \in DOMAIN trace :
               k + 1 \in DOMAIN trace => trace[k + 1].cursor >= trace[k].cursor
        /\ \A i \in DOMAIN ret :
               i + 1 \in DOMAIN ret =>
                   ResultTask(i + 1).scheduled_time >=
                       ResultTask(i).scheduled_time + ResultTask(i).duration_minutes

\* a result of three tasks, one of them committed after a gap
C25_Witness ==
    /\ Scheduled
    /\ \A i \in Pending(pre) : pre[i].duration_minutes > 0
    /\ Len(ret) = 3
    /\ \E i \in 1..2 :
           ResultTask(i + 1).scheduled_time >
               ResultTask(i).scheduled_time + ResultTask(i).duration_minutes

-----------------------------------------------------------------------------
(* SmartTaskManager.add_task over every way a task's energy can be         *)
(* entered, on a manager whose earlier tasks may have been completed.      *)

AddEnergyInputs ==
    { TaskInput(URGENT, 30, None, ENERGY_MEDIUM),
      TaskInput(HIGH, 90, None, ENERGY_MEDIUM),
      TaskInput(MEDIUM, 30, None, ENERGY_MEDIUM),
      TaskInput(LOW, 30, None, ENERGY_MEDIUM),
      TaskInput(URGENT, 30, None, ENERGY_LOW),
      TaskInput(LOW, 30, None, ENERGY_HIGH) }

AddNext ==
    \/ \E inp \in AddEnergyInputs : AddTask(inp, None, 1)
    \/ \E task_id \in KnownIds : CompleteTask(task_id, None)

AddSpec == Init /\ [][AddNext]_vars

-----------------------------------------------------------------------------
(* C26 *)

AddCalled == op = "add_task"

-----------------------------------------------------------------------------
(* C27 *)

====
